---- MODULE Spec2Model ----
(***************************************************************************)
(* Staking, NFT and riff routes of the RIFFblock backend, as a state       *)
(* machine over the database rows the routes read and write.               *)
(*                                                                         *)
(* Every route handler is an async function: it runs synchronously up to   *)
(* each `await prisma...` and other requests run while it waits.  A        *)
(* handler is therefore a small process whose steps are its database       *)
(* operations; the synchronous code that follows a read (the guards, the   *)
(* `new Date()`) belongs to the step of that read, and a request's first   *)
(* step is its arrival.                                                    *)
(*                                                                         *)
(* Time is counted in days.  Amounts are integers: the request bodies      *)
(* drawn below carry no fraction and no exponent.                          *)
(***************************************************************************)
EXTENDS Integers, Sequences, FiniteSets, TLC

\* ---------------------------------------------------------------- bounds
NumHandlers == 2
MaxPositions == 2
MaxTime == 90
EarlyDays == 1
MaxStakesInFlight == 1
MaxTips == 1

\* ------------------------------------------------------ program constants
LockDays == 90
\* The stakers' share of a riff's revenue, in basis points: the default of
\* NFT.customRoyaltyShare, 50 per cent.
RoyaltyShareBps == 5000
\* The least minimum stake the staking settings accept.
LeastMinimumStake == 0

Users == {"u1", "u2"}
\* The users who upload riffs.
Artists == {"u1"}
\* The users who tip.
Tippers == {"u2"}
RiffIds == {"r1"}
Handlers == 1..NumHandlers
PositionIds == 1..MaxPositions

\* The instants the clock visits: the first days, and the days from the
\* first unlock date on.
TimePoints == (0..EarlyDays) \cup (LockDays..MaxTime)

\* ------------------------------------------------- Number.parseFloat(x)
DigitChars == <<"0", "1", "2", "3", "4", "5", "6", "7", "8", "9">>

IsDigit(c) == \E i \in 1..10 : DigitChars[i] = c

DigitVal(c) == (CHOOSE i \in 1..10 : DigitChars[i] = c) - 1

RECURSIVE TrimStart(_)
TrimStart(s) == IF s # <<>> /\ Head(s) = " " THEN TrimStart(Tail(s)) ELSE s

RECURSIVE DigitPrefix(_)
DigitPrefix(s) ==
    IF s # <<>> /\ IsDigit(Head(s)) THEN <<Head(s)>> \o DigitPrefix(Tail(s)) ELSE <<>>

RECURSIVE DigitsValue(_)
DigitsValue(ds) ==
    IF ds = <<>> THEN 0
    ELSE 10 * DigitsValue(SubSeq(ds, 1, Len(ds) - 1)) + DigitVal(ds[Len(ds)])

\* ToString of an integer, the first thing parseFloat does to a number.
RECURSIVE NatToString(_)
NatToString(n) ==
    IF n < 10 THEN <<DigitChars[n + 1]>>
    ELSE NatToString(n \div 10) \o <<DigitChars[(n % 10) + 1]>>

NumberToString(n) == IF n < 0 THEN <<"-">> \o NatToString(-n) ELSE NatToString(n)

\* A body value: a JSON number, a JSON string, or an absent field.  `text` is
\* what ToString makes of it.
JsNumber(n) == [kind |-> "number", text |-> NumberToString(n)]
JsString(s) == [kind |-> "string", text |-> s]
JsUndefined == [kind |-> "undefined", text |-> <<"u", "n", "d", "e", "f", "i", "n", "e", "d">>]

ParseFloatUnsigned(x) ==
    LET t == TrimStart(x.text)
        signed == t # <<>> /\ Head(t) \in {"-", "+"}
        body == IF signed THEN Tail(t) ELSE t
        ds == DigitPrefix(body)
    IN  IF ds = <<>> THEN [nan |-> TRUE, v |-> 0] ELSE [nan |-> FALSE, v |-> DigitsValue(ds)]

\* parseFloat: leading blanks, an optional sign, the longest run of digits;
\* NaN when there is no digit.
ParseFloat(x) ==
    LET t == TrimStart(x.text)
        signed == t # <<>> /\ Head(t) \in {"-", "+"}
        body == IF signed THEN Tail(t) ELSE t
        ds == DigitPrefix(body)
    IN  IF ds = <<>> THEN [nan |-> TRUE, v |-> 0]
        ELSE [nan |-> FALSE,
              v |-> IF signed /\ Head(t) = "-" THEN 0 - DigitsValue(ds) ELSE DigitsValue(ds)]

AmountInputs ==
    {JsNumber(5), JsNumber(-5), JsString(<<" ", "5", "x">>), JsUndefined}

\* enableStaking in a request body, and the code's test `enableStaking === "true"`.
FlagInputs == {JsString(<<"t", "r", "u", "e">>), JsString(<<"f", "a", "l", "s", "e">>), JsUndefined}

IsNotStringFalse(x) == ~(x.kind = "string" /\ x.text = <<"f", "a", "l", "s", "e">>)

IsStringTrue(x) == x.kind = "string" /\ x.text = <<"t", "r", "u", "e">>

\* isBargainBin in the body of a riff upload or update, or an unlock* flag in
\* the body of a mint or of an NFT update.
BargainInputs == {JsString(<<"t", "r", "u", "e">>), JsUndefined}

\* The truthiness of a body field: undefined, the empty string and the number
\* 0 are falsy.
JsTruthy(x) ==
    /\ x.kind # "undefined"
    /\ x.kind = "string" => x.text # <<>>
    /\ x.kind = "number" => x.text # <<"0">>

\* The fields of the body of a mint or of an NFT update that the model
\* follows (the other unlock* flags are treated as unlockSourceFiles is,
\* royaltyPercentage is a number, currency is any string).
NftBody(f, price, share, unlock) ==
    [enableStaking |-> f, price |-> price, customRoyaltyShare |-> share,
     unlockSourceFiles |-> unlock]

\* A body that names enableStaking and changes nothing else of a minted NFT.
FlagBody(f) == NftBody(f, JsNumber(10), JsNumber(50), JsUndefined)

\* price and customRoyaltyShare in such a body.
PriceInputs == {JsNumber(10), JsNumber(20), JsString(<<"x">>), JsUndefined}
ShareInputs == {JsNumber(50), JsUndefined}

NftBodies ==
    {NftBody(f, p, c, k) : f \in FlagInputs, p \in PriceInputs, c \in ShareInputs,
                           k \in BargainInputs}

\* The flags that are strings.
StringFlags == {f \in FlagInputs : f.kind = "string"}


\* amount in the body of a tip.
TipInputs == {JsNumber(10), JsUndefined}

\* ------------------------------------------- the Authorization header
\* No header (or one that is not a Bearer), a Bearer with nothing after it, a
\* token jwt.verify rejects, and a token signed for a user id.
NoToken == [kind |-> "none", userId |-> "none"]
EmptyToken == [kind |-> "empty", userId |-> "none"]
BadToken == [kind |-> "bad", userId |-> "none"]
SignedFor(u) == [kind |-> "signed", userId |-> u]

\* A user id that table User does not hold.
UnknownUsers == {"ghost"}

Tokens == {NoToken, EmptyToken, BadToken} \cup {SignedFor(u) : u \in Users \cup UnknownUsers}

AuthenticateSkipsLookup(tok) ==
    IF tok.kind = "none" THEN [ok |-> FALSE, userId |-> "none", message |-> "Authentication required"]
    ELSE IF tok.kind = "empty"
         THEN [ok |-> FALSE, userId |-> "none", message |-> "Authentication token missing"]
    ELSE IF tok.kind = "bad"
         THEN [ok |-> FALSE, userId |-> "none", message |-> "Invalid or expired token"]
    ELSE [ok |-> TRUE, userId |-> tok.userId, message |-> "none"]

\* authMiddleware: the header, the token, jwt.verify, the user's row.
Authenticate(tok) ==
    IF tok.kind = "none" THEN [ok |-> FALSE, userId |-> "none", message |-> "Authentication required"]
    ELSE IF tok.kind = "empty"
         THEN [ok |-> FALSE, userId |-> "none", message |-> "Authentication token missing"]
    ELSE IF tok.kind = "bad"
         THEN [ok |-> FALSE, userId |-> "none", message |-> "Invalid or expired token"]
    ELSE IF tok.userId \notin Users
         THEN [ok |-> FALSE, userId |-> "none", message |-> "User not found"]
    ELSE [ok |-> TRUE, userId |-> tok.userId, message |-> "none"]

\* ------------------------------------------------------------- the state
VARIABLES
    clock,      \* the wall clock `new Date()` and the database's now()
    riffs,      \* table Riff: riff id -> row
    nfts,       \* table NFT: per riff, its row and the number of its rows
    staking,    \* table Staking: the rows in creation order, id = index
    hs,         \* the requests in flight, one per handler slot
    tips,       \* table Tip: the rows in creation order
    last,       \* the request answered by the latest step, with its response
    paid,       \* per position: successful unstake responses of requests
                \* that had read the position before it was withdrawn
    likes,      \* table Like: user -> riff -> the number of rows
    wallets,    \* table Wallet: address -> the userIds of its rows
    settings,   \* table StakingSettings: user -> the row and the number of rows
    heap,       \* the objects the request logger reads and writes, by reference
    httpLog     \* per logged request, the line written for it

social == <<likes, wallets, settings>>
logging == <<heap, httpLog>>
vars == <<clock, riffs, nfts, staking, tips, hs, last, paid, likes, wallets, settings,
          heap, httpLog>>

NoRiff == [exists |-> FALSE, userId |-> "none", isBargainBin |-> FALSE]
\* `rows` is the number of NFT rows of the riff.
NoNft == [exists |-> FALSE, ownerId |-> "none", enableStaking |-> FALSE, price |-> 0,
          customRoyaltyShare |-> 0, unlockSourceFiles |-> FALSE, rows |-> 0]
NoRec == [userId |-> "none", riffId |-> "none", amount |-> 0, stakedAt |-> 0,
          unlockAt |-> 0, royaltiesEarned |-> 0, status |-> "none", updatedAt |-> 0]

\* A handler slot with no request.  `seen` is what the request's read found,
\* `rec` the staking row it read or wrote, `now`/`unlockAt` the dates it
\* computed.  A request waiting for its write keeps what the write needs.
Idle == [op |-> "none", pc |-> "idle", caller |-> "none", riffId |-> "none", id |-> 0,
         amount |-> JsUndefined, flag |-> JsUndefined, seen |-> "none", rec |-> NoRec,
         now |-> 0, unlockAt |-> 0, token |-> NoToken,
         nft |-> NftBody(JsUndefined, JsUndefined, JsUndefined, JsUndefined),
         address |-> "none"]

NoStats == [totalStaked |-> 0, stakersCount |-> 0, records |-> 0]

\* The JSON body of a response that carries a message and nothing else.
MessageBody(msg) == [message |-> msg]

\* `body` is the JSON sent when it is a message object, `rows` the ids of the
\* staking rows sent when it is a list.
NoResponse == [req |-> Idle, status |-> 0, message |-> "none", nftOff |-> FALSE,
               stats |-> NoStats, body |-> MessageBody("none"), rows |-> {}]

\* ------------------------------------------------- wallets, settings
\* walletAddress in the body of connect-wallet: an address, or none.
Addresses == {"a1", "a2"}
AddressInputs == Addresses \cup {"undefined"}

JsBoolean(b) ==
    [kind |-> "boolean",
     text |-> IF b THEN <<"t", "r", "u", "e">> ELSE <<"f", "a", "l", "s", "e">>]

\* A row of StakingSettings (the four other *Royalty columns are treated as
\* marketplaceRoyalty is), and the number of rows of the user.
NoSettings ==
    [rows |-> 0, stakingEnabled |-> FALSE, defaultRoyalty |-> 0, minimumStake |-> 0,
     marketplaceRoyalty |-> FALSE]

\* The row GET /staking-settings creates.
DefaultSettings ==
    [rows |-> 1, stakingEnabled |-> TRUE, defaultRoyalty |-> 10, minimumStake |-> 500,
     marketplaceRoyalty |-> TRUE]

SettingsBody(enabled, royalty, minimum, marketplace) ==
    [stakingEnabled |-> enabled, defaultRoyalty |-> royalty, minimumStake |-> minimum,
     marketplaceRoyalty |-> marketplace]

\* Bodies of PUT /staking-settings: two that pass the validation, and one
\* that fails it on each rule.
SettingsInputs ==
    {SettingsBody(JsBoolean(FALSE), JsNumber(20), JsNumber(0), JsBoolean(FALSE)),
     SettingsBody(JsBoolean(TRUE), JsNumber(100), JsNumber(500), JsBoolean(TRUE)),
     SettingsBody(JsString(<<"t", "r", "u", "e">>), JsNumber(20), JsNumber(0), JsBoolean(FALSE)),
     SettingsBody(JsBoolean(FALSE), JsNumber(101), JsNumber(0), JsBoolean(FALSE)),
     SettingsBody(JsBoolean(FALSE), JsNumber(20), JsNumber(-1), JsBoolean(FALSE)),
     SettingsBody(JsBoolean(FALSE), JsNumber(20), JsNumber(0), JsUndefined)}

\* ------------------------------------------------- the request logger
\* The two requests whose log lines are compared, and the references of the
\* objects: a request's body, and the object the logger makes of it.
Requests == {1, 2}
Refs == 1..4

\* The top-level fields of a body that the model follows, in the order
\* JSON.stringify writes them; an absent field is undefined.
BodyKeys == <<"password", "token", "apiKey", "email">>

LogBodies ==
    [password : {JsUndefined, JsString(<<>>), JsString(<<"a">>), JsString(<<"b">>), JsNumber(0)},
     token : {JsString(<<"t">>), JsString(<<"v">>)},
     apiKey : {JsUndefined, JsString(<<"k">>), JsString(<<"j">>)},
     email : {JsString(<<"e">>), JsString(<<"f">>)}]

NoObject ==
    [password |-> JsUndefined, token |-> JsUndefined, apiKey |-> JsUndefined,
     email |-> JsUndefined]

LogPaths == {"/health", "/api/users/login"}
NodeEnvs == {"production", "development"}

\* The line of a request: not written yet, written, or skipped.
NoLine(path, env) == [written |-> "no", path |-> path, env |-> env, reqBody |-> <<>>]

InitTables ==
    /\ clock = 0
    /\ riffs = [r \in RiffIds |-> NoRiff]
    /\ nfts = [r \in RiffIds |-> NoNft]
    /\ staking = <<>>
    /\ tips = <<>>
    /\ hs = [h \in Handlers |-> Idle]
    /\ last = NoResponse
    /\ paid = [p \in PositionIds |-> 0]
    /\ likes = [u \in Users |-> [r \in RiffIds |-> 0]]
    /\ wallets = [a \in Addresses |-> <<>>]
    /\ settings = [u \in Users |-> NoSettings]

Init ==
    /\ InitTables
    /\ heap = [ref \in Refs |-> NoObject]
    /\ httpLog = [i \in Requests |-> NoLine("/health", "production")]

\* Two requests with any bodies, on any paths, reach a server started in
\* either environment.
InitLog ==
    /\ InitTables
    /\ \E b1 \in LogBodies, b2 \in LogBodies :
          heap = [ref \in Refs |-> IF ref = 1 THEN b1 ELSE IF ref = 2 THEN b2 ELSE NoObject]
    /\ \E p1 \in LogPaths, p2 \in LogPaths, env \in NodeEnvs :
          httpLog = [i \in Requests |-> NoLine(IF i = 1 THEN p1 ELSE p2, env)]

\* A request as it reaches its handler: req.user is the user the request's
\* token was signed for.
Request(op, u, r, id, a, f) ==
    [Idle EXCEPT !.op = op, !.caller = u, !.riffId = r, !.id = id, !.amount = a, !.flag = f,
                 !.token = IF u = "none" THEN NoToken ELSE SignedFor(u)]

\* res.status(st).json({message}) and the end of the handler.  `nftOff`
\* notes whether the NFT of the touched position's riff had staking
\* disabled at that moment.
AnswerWith(req, st, body) ==
    last' = [req |-> req, status |-> st, message |-> body.message,
             nftOff |-> /\ req.rec.riffId \in RiffIds
                        /\ nfts[req.rec.riffId].exists
                        /\ ~nfts[req.rec.riffId].enableStaking,
             stats |-> NoStats, body |-> body, rows |-> {}]

Answer(req, st, msg) == AnswerWith(req, st, MessageBody(msg))

RespondKeepsSlot(h, req, st, msg) ==
    /\ hs' = hs
    /\ Answer(req, st, msg)

Respond(h, req, st, msg) ==
    /\ hs' = [hs EXCEPT ![h] = Idle]
    /\ Answer(req, st, msg)

\* res.json(row) and the end of the handler.
AnswerJson(req, st, json) == last' = [NoResponse EXCEPT !.req = req, !.status = st, !.body = json]

RespondJson(h, req, st, json) ==
    /\ hs' = [hs EXCEPT ![h] = Idle]
    /\ AnswerJson(req, st, json)

RespondWith(h, req, st, body) ==
    /\ hs' = [hs EXCEPT ![h] = Idle]
    /\ AnswerWith(req, st, body)

\* The response of a step leaves the server before the next step.
Ready == last = NoResponse

\* The slot a new request takes: the first free one.
FreeSlot(h) == hs[h].pc = "idle" /\ \A g \in Handlers : g < h => hs[g].pc # "idle"

\* The schema has no table of ledger movements and no route writes one: the
\* movements recorded for a position are none.
LedgerMovements(p) == <<>>

\* ------------------------------------------------------------ the clock
\* A day passes, or (with no request in flight: none lasts that long) the
\* time up to a later instant.
Tick ==
    /\ Ready
    /\ \E t \in TimePoints :
          /\ t > clock
          /\ t = clock + 1 \/ \A h \in Handlers : hs[h].pc = "idle"
          /\ clock' = t
    /\ UNCHANGED <<social, logging, riffs, nfts, staking, tips, hs, last, paid>>

\* -------------------------------------------- POST /api/riffs (upload)
\* The row gets a fresh uuid: any id not in use.
UploadRiff(u, r, bargain) ==
    /\ Ready
    /\ ~riffs[r].exists
    /\ riffs' = [riffs EXCEPT ![r] = [exists |-> TRUE, userId |-> u,
                                      isBargainBin |-> IsStringTrue(bargain)]]
    /\ Answer(Request("upload", u, r, 0, JsUndefined, JsUndefined), 201, "created")
    /\ UNCHANGED <<social, logging, clock, nfts, staking, tips, hs, paid>>

\* ------------------------------------------ POST /api/staking/stake
StakesInFlight == Cardinality({h \in Handlers : hs[h].op = "stake"})

StakeSeenIgnoresNft(r) ==
    IF ~riffs[r].exists THEN "noRiff"
    ELSE IF nfts[r].exists /\ ~nfts[r].enableStaking THEN "disabled"
    ELSE "enabled"

StakeSeenIgnoresFlag(r) ==
    IF ~riffs[r].exists THEN "noRiff"
    ELSE IF ~nfts[r].exists THEN "noNft"
    ELSE "enabled"

\* What findUnique({where: {id: riffId}, include: {nft: true}}) finds.
StakeSeen(r) ==
    IF ~riffs[r].exists THEN "noRiff"
    ELSE IF ~nfts[r].exists THEN "noNft"
    ELSE IF ~nfts[r].enableStaking THEN "disabled"
    ELSE "enabled"

UnlockDateUnset(now) == now

\* unlockAt.setDate(unlockAt.getDate() + 90)
UnlockDate(now) == now + LockDays

\* The request arrives and runs up to its create.
Stake(h, u, r, a) ==
    LET req == [Request("stake", u, r, 0, a, JsUndefined) EXCEPT !.seen = StakeSeen(r)] IN
    /\ Ready /\ FreeSlot(h)
    /\ StakesInFlight < MaxStakesInFlight
    /\ Len(staking) < MaxPositions
    /\ IF req.seen = "noRiff" THEN Respond(h, req, 404, "Riff not found")
       ELSE IF req.seen = "noNft" THEN Respond(h, req, 400, "Riff is not minted as an NFT")
       ELSE IF req.seen = "disabled"
            THEN Respond(h, req, 400, "Staking is not enabled for this riff")
       ELSE /\ hs' = [hs EXCEPT ![h] = [req EXCEPT !.pc = "write",
                                                   !.unlockAt = UnlockDate(clock)]]
            /\ last' = last
    /\ UNCHANGED <<social, logging, clock, riffs, nfts, staking, tips, paid>>

\* The row prisma.staking.create makes: the schema's defaults fill the rest.
NewStaking(req, amount) ==
    [userId |-> req.caller, riffId |-> req.riffId, amount |-> amount, stakedAt |-> clock,
     unlockAt |-> req.unlockAt, royaltiesEarned |-> 0, status |-> "locked",
     updatedAt |-> clock]

\* A Float column takes no NaN: the client rejects the query and the
\* handler's catch answers 500.
StakeWrite(h) ==
    LET req == hs[h]
        amt == ParseFloat(req.amount)
    IN
    /\ Ready
    /\ req.op = "stake" /\ req.pc = "write"
    /\ IF amt.nan
       THEN /\ Respond(h, req, 500, "Server error")
            /\ staking' = staking
       ELSE /\ staking' = Append(staking, NewStaking(req, amt.v))
            /\ Respond(h, [req EXCEPT !.id = Len(staking) + 1, !.rec = NewStaking(req, amt.v)],
                       201, "created")
    /\ UNCHANGED <<social, logging, clock, riffs, nfts, tips, paid>>

\* --------------------------------------- POST /api/staking/unstake/:id
FindStaking(id) == IF id \in 1..Len(staking) THEN staking[id] ELSE NoRec

NotOwnerNever(rec, userId) == FALSE

\* The owner test made after the date test.
NotOwnerAfterDate(rec, userId) == rec.userId # userId /\ clock >= rec.unlockAt

\* stakingRecord.userId !== userId
NotOwner(rec, userId) == rec.userId # userId

StillLockedOffByOne(now, unlockAt) == now + 1 < unlockAt

StillLockedInclusive(now, unlockAt) == now <= unlockAt

\* now < stakingRecord.unlockAt
StillLocked(now, unlockAt) == now < unlockAt

\* res.status(400).json({message: "Staking period not over yet", unlockAt})
StillLockedBody(rec) == [message |-> "Staking period not over yet", unlockAt |-> rec.unlockAt]

\* The request arrives and runs up to its update.
Unstake(h, u, id) ==
    LET rec == FindStaking(id)
        req == [Request("unstake", u, "none", id, JsUndefined, JsUndefined) EXCEPT
                    !.rec = rec, !.now = clock,
                    !.seen = IF rec = NoRec THEN "noRecord" ELSE rec.status]
    IN
    /\ Ready /\ FreeSlot(h)
    /\ IF rec = NoRec THEN Respond(h, req, 404, "Staking record not found")
       ELSE IF NotOwner(rec, req.caller)
            THEN Respond(h, req, 403, "Not authorized to unstake this record")
       ELSE IF StillLocked(req.now, rec.unlockAt)
            THEN RespondWith(h, req, 400, StillLockedBody(rec))
       ELSE /\ hs' = [hs EXCEPT ![h] = [req EXCEPT !.pc = "write", !.rec = NoRec]]
            /\ last' = last
    /\ UNCHANGED <<social, logging, clock, riffs, nfts, staking, tips, paid>>

WithdrawnRestampsStake(rec) ==
    [rec EXCEPT !.status = "withdrawn", !.updatedAt = clock, !.stakedAt = clock]

WithdrawnZeroesAmount(rec) ==
    [rec EXCEPT !.status = "withdrawn", !.updatedAt = clock, !.amount = 0]

WithdrawnToggle(rec) ==
    [rec EXCEPT !.status = IF @ = "withdrawn" THEN "locked" ELSE "withdrawn",
                !.updatedAt = clock]

\* prisma.staking.update({where: {id}, data: {status: "withdrawn"}}); the
\* @updatedAt column follows.  The response carries the updated row.
Withdrawn(rec) == [rec EXCEPT !.status = "withdrawn", !.updatedAt = clock]

UnstakeWrite(h) ==
    LET req == hs[h] IN
    /\ Ready
    /\ req.op = "unstake" /\ req.pc = "write"
    /\ staking' = [staking EXCEPT ![req.id] = Withdrawn(@)]
    /\ Respond(h, [req EXCEPT !.rec = Withdrawn(staking[req.id])], 200, "ok")
    /\ paid' = IF req.seen # "withdrawn" THEN [paid EXCEPT ![req.id] = @ + 1] ELSE paid
    /\ UNCHANGED <<social, logging, clock, riffs, nfts, tips>>

\* ------------------------------------ GET /api/staking/stats/:riffId
StatsRecordsEnabledOnly(riffId) ==
    {p \in 1..Len(staking) : staking[p].riffId = riffId /\ staking[p].status # "withdrawn"
                             /\ nfts[riffId].enableStaking}

\* findMany({where: {riffId, status: {not: "withdrawn"}}}), as row ids.
StatsRecords(riffId) ==
    {p \in 1..Len(staking) : staking[p].riffId = riffId /\ staking[p].status # "withdrawn"}

RECURSIVE SumAmount(_)
SumAmount(ps) ==
    IF ps = {} THEN 0
    ELSE LET p == CHOOSE q \in ps : TRUE IN staking[p].amount + SumAmount(ps \ {p})

GetStats(riffId) ==
    LET recs == StatsRecords(riffId) IN
    [totalStaked |-> SumAmount(recs),
     stakersCount |-> Cardinality({staking[p].userId : p \in recs}),
     records |-> Cardinality(recs)]

\* The route asks for no token; its answer is the three numbers.
Stats(r) ==
    /\ Ready
    /\ last' = [req |-> Request("stats", "none", r, 0, JsUndefined, JsUndefined),
                status |-> 200, message |-> "ok", nftOff |-> FALSE, stats |-> GetStats(r),
                body |-> MessageBody("ok"), rows |-> {}]
    /\ UNCHANGED <<social, logging, clock, riffs, nfts, staking, tips, hs, paid>>

\* ------------------------------------------------ POST /api/nfts/mint
\* The body of a mint request.
MintRequest(u, r, b) == [Request("mint", u, r, 0, JsUndefined, b.enableStaking) EXCEPT !.nft = b]

\* What the reads of the handler find.
MintSeen(u, r) ==
    IF ~riffs[r].exists THEN "noRiff"
    ELSE IF riffs[r].userId # u THEN "riff"
    ELSE IF nfts[r].exists THEN "nft"
    ELSE "noNft"

\* The row prisma.nFT.create makes of the body.
NewNft(req) ==
    [exists |-> TRUE, ownerId |-> req.caller,
     enableStaking |-> IsStringTrue(req.nft.enableStaking),
     price |-> ParseFloat(req.nft.price).v,
     customRoyaltyShare |-> ParseFloat(req.nft.customRoyaltyShare).v,
     unlockSourceFiles |-> IsStringTrue(req.nft.unlockSourceFiles),
     rows |-> nfts[req.riffId].rows + 1]

\* A Float column takes no NaN: the client rejects the create.
NftCreateInvalid(req) ==
    ParseFloat(req.nft.price).nan \/ ParseFloat(req.nft.customRoyaltyShare).nan

NftCreateNeverRefused(r) == FALSE

\* NFT.riffId is @unique and refers to a riff: the database refuses a second
\* row for the riff, and a row for a riff that is gone.
NftCreateRefused(r) == nfts[r].rows > 0 \/ ~riffs[r].exists

\* The create and the answer that ends the handler.
MintAnswer(req) ==
    IF NftCreateInvalid(req) \/ NftCreateRefused(req.riffId)
    THEN /\ nfts' = nfts
         /\ Answer(req, 500, "Server error")
    ELSE /\ nfts' = [nfts EXCEPT ![req.riffId] = NewNft(req)]
         /\ Answer(req, 201, "created")

\* The handler with nothing else running between its reads and its create.
Mint(u, r, b) ==
    LET req == [MintRequest(u, r, b) EXCEPT !.seen = MintSeen(u, r)] IN
    /\ Ready
    /\ IF req.seen = "noRiff"
       THEN /\ Answer(req, 404, "Riff not found")
            /\ nfts' = nfts
       ELSE IF req.seen = "riff"
       THEN /\ Answer(req, 403, "Not authorized to mint this riff")
            /\ nfts' = nfts
       ELSE IF req.seen = "nft"
       THEN /\ Answer(req, 400, "Riff is already minted as an NFT")
            /\ nfts' = nfts
       ELSE MintAnswer(req)
    /\ UNCHANGED <<social, logging, clock, riffs, staking, tips, hs, paid>>

\* The request arrives and runs up to its call of mintNFT, which takes two
\* seconds of timer.
MintStart(h, u, r, b) ==
    LET req == [MintRequest(u, r, b) EXCEPT !.seen = MintSeen(u, r)] IN
    /\ Ready /\ FreeSlot(h)
    /\ IF req.seen = "noRiff" THEN Respond(h, req, 404, "Riff not found")
       ELSE IF req.seen = "riff" THEN Respond(h, req, 403, "Not authorized to mint this riff")
       ELSE IF req.seen = "nft" THEN Respond(h, req, 400, "Riff is already minted as an NFT")
       ELSE /\ hs' = [hs EXCEPT ![h] = [req EXCEPT !.pc = "create"]]
            /\ last' = last
    /\ UNCHANGED <<social, logging, clock, riffs, nfts, staking, tips, paid>>

\* mintNFT has returned: the create.
MintCreate(h) ==
    /\ Ready
    /\ hs[h].op = "mint" /\ hs[h].pc = "create"
    /\ MintAnswer(hs[h])
    /\ hs' = [hs EXCEPT ![h] = Idle]
    /\ UNCHANGED <<social, logging, clock, riffs, staking, tips, paid>>

\* ------------------------------------------------- PUT /api/nfts/:id
\* An NFT row is named here by its riff: the two are one to one.  The guards
\* read only what never changes once the row exists, so the handler is taken
\* at the instant of its update.
\* `x ? Number.parseFloat(x) : undefined`: the column keeps its value when
\* the field is falsy.
FloatOrKeep(x, old) == IF JsTruthy(x) THEN ParseFloat(x).v ELSE old

NftUpdateInvalid(b) ==
    \/ JsTruthy(b.price) /\ ParseFloat(b.price).nan
    \/ JsTruthy(b.customRoyaltyShare) /\ ParseFloat(b.customRoyaltyShare).nan

NftUpdate(u, r, b) ==
    LET req == [Request("nftUpdate", u, r, 0, JsUndefined, b.enableStaking) EXCEPT !.nft = b]
        nft == nfts[r]
    IN
    /\ Ready
    /\ IF ~nft.exists
       THEN /\ Answer([req EXCEPT !.seen = "noNft"], 404, "NFT not found")
            /\ nfts' = nfts
       ELSE IF nft.ownerId # u
       THEN /\ Answer([req EXCEPT !.seen = "nft"], 403, "Not authorized to update this NFT")
            /\ nfts' = nfts
       ELSE IF NftUpdateInvalid(b)
       THEN /\ Answer([req EXCEPT !.seen = "nft"], 500, "Server error")
            /\ nfts' = nfts
       ELSE /\ nfts' = [nfts EXCEPT
                          ![r].enableStaking = IsStringTrue(b.enableStaking),
                          ![r].unlockSourceFiles = IsStringTrue(b.unlockSourceFiles),
                          ![r].price = FloatOrKeep(b.price, @),
                          ![r].customRoyaltyShare = FloatOrKeep(b.customRoyaltyShare, @)]
            /\ Answer([req EXCEPT !.seen = "nft"], 200, "ok")
    /\ UNCHANGED <<social, logging, clock, riffs, staking, tips, hs, paid>>

\* --------------------------------- POST /api/riffs/:id/like and
\* --------------------------------- POST /api/users/like/:riffId
\* The two routes that create a Like row: `op` names the route.
LikeRoutes == {"like", "userLike"}

\* What the reads of a like or unlike handler find.
LikeSeen(u, r) ==
    IF ~riffs[r].exists THEN "noRiff" ELSE IF likes[u][r] > 0 THEN "like" ELSE "noLike"

AlreadyLiked(op) ==
    IF op = "like" THEN "You already liked this riff" ELSE "Riff already liked"

\* The request arrives and runs up to its create.
LikeStart(h, op, u, r) ==
    LET req == [Request(op, u, r, 0, JsUndefined, JsUndefined) EXCEPT !.seen = LikeSeen(u, r)] IN
    /\ Ready /\ FreeSlot(h)
    /\ IF req.seen = "noRiff" THEN Respond(h, req, 404, "Riff not found")
       ELSE IF req.seen = "like" THEN Respond(h, req, 400, AlreadyLiked(op))
       ELSE /\ hs' = [hs EXCEPT ![h] = [req EXCEPT !.pc = "create"]]
            /\ last' = last
    /\ UNCHANGED <<clock, riffs, nfts, staking, tips, paid, social, logging>>

LikeCreateNeverRefused(u, r) == FALSE

\* The handlers name a Like row by userId_riffId: the pair is unique in the
\* table, and the database refuses a second row for it.
LikeCreateRefused(u, r) == likes[u][r] > 0 \/ ~riffs[r].exists

\* prisma.like.create, then the activity row (a table the model does not
\* follow) and the answer.
LikeCreate(h) ==
    LET req == hs[h] IN
    /\ Ready
    /\ req.op \in LikeRoutes /\ req.pc = "create"
    /\ IF LikeCreateRefused(req.caller, req.riffId)
       THEN /\ likes' = likes
            /\ Respond(h, req, 500, "Server error")
       ELSE /\ likes' = [likes EXCEPT ![req.caller][req.riffId] = @ + 1]
            /\ IF req.op = "like"
               THEN Respond(h, req, 201, "Riff liked successfully")
               ELSE RespondJson(h, req, 200, [userId |-> req.caller, riffId |-> req.riffId])
    /\ UNCHANGED <<clock, riffs, nfts, staking, tips, paid, wallets, settings, logging>>

\* -------------------------------------- DELETE /api/riffs/:id/like
UnlikeStart(h, u, r) ==
    LET req == [Request("unlike", u, r, 0, JsUndefined, JsUndefined) EXCEPT
                   !.seen = LikeSeen(u, r)]
    IN
    /\ Ready /\ FreeSlot(h)
    /\ IF req.seen = "noRiff" THEN Respond(h, req, 404, "Riff not found")
       ELSE IF req.seen = "noLike" THEN Respond(h, req, 400, "You have not liked this riff")
       ELSE /\ hs' = [hs EXCEPT ![h] = [req EXCEPT !.pc = "delete"]]
            /\ last' = last
    /\ UNCHANGED <<clock, riffs, nfts, staking, tips, paid, social, logging>>

\* prisma.like.delete throws when the row it names is gone.
UnlikeDelete(h) ==
    LET req == hs[h] IN
    /\ Ready
    /\ req.op = "unlike" /\ req.pc = "delete"
    /\ IF likes[req.caller][req.riffId] = 0
       THEN /\ likes' = likes
            /\ Respond(h, req, 500, "Server error")
       ELSE /\ likes' = [likes EXCEPT ![req.caller][req.riffId] = @ - 1]
            /\ Respond(h, req, 200, "Riff unliked successfully")
    /\ UNCHANGED <<clock, riffs, nfts, staking, tips, paid, wallets, settings, logging>>

\* ------------------------------------ POST /api/users/connect-wallet
\* The request arrives and runs up to its create.  findUnique with no
\* address is rejected by the client.
ConnectWallet(h, u, a) ==
    LET req == [Request("connectWallet", u, "none", 0, JsUndefined, JsUndefined) EXCEPT
                   !.address = a]
    IN
    /\ Ready /\ FreeSlot(h)
    /\ IF a \notin Addresses THEN Respond(h, [req EXCEPT !.seen = "error"], 500, "Server error")
       ELSE IF wallets[a] # <<>>
       THEN Respond(h, [req EXCEPT !.seen = "wallet"], 400, "Wallet already connected to a user")
       ELSE /\ hs' = [hs EXCEPT ![h] = [req EXCEPT !.seen = "noWallet", !.pc = "create"]]
            /\ last' = last
    /\ UNCHANGED <<clock, riffs, nfts, staking, tips, paid, social, logging>>

WalletCreateNeverRefused(a) == FALSE

\* Wallet.address is @unique.
WalletCreateRefused(a) == wallets[a] # <<>>

WalletCreate(h) ==
    LET req == hs[h] IN
    /\ Ready
    /\ req.op = "connectWallet" /\ req.pc = "create"
    /\ IF WalletCreateRefused(req.address)
       THEN /\ wallets' = wallets
            /\ Respond(h, req, 500, "Server error")
       ELSE /\ wallets' = [wallets EXCEPT ![req.address] = Append(@, req.caller)]
            /\ RespondJson(h, req, 200, [address |-> req.address, userId |-> req.caller])
    /\ UNCHANGED <<clock, riffs, nfts, staking, tips, paid, likes, settings, logging>>

\* ---------------------------------- GET /api/users/staking-settings
\* formattedSettings
FormattedSettings(row) ==
    [stakingEnabled |-> row.stakingEnabled, defaultRoyalty |-> row.defaultRoyalty,
     minimumStake |-> row.minimumStake,
     royaltyApplicableTo |-> [marketplace |-> row.marketplaceRoyalty]]

\* The request arrives and reads the user's row.
SettingsGet(h, u) ==
    LET req == Request("getSettings", u, "none", 0, JsUndefined, JsUndefined) IN
    /\ Ready /\ FreeSlot(h)
    /\ IF settings[u].rows > 0
       THEN RespondJson(h, [req EXCEPT !.seen = "settings"], 200, FormattedSettings(settings[u]))
       ELSE /\ hs' = [hs EXCEPT ![h] = [req EXCEPT !.seen = "noSettings", !.pc = "create"]]
            /\ last' = last
    /\ UNCHANGED <<clock, riffs, nfts, staking, tips, paid, social, logging>>

SettingsCreateNeverRefused(u) == FALSE

\* The handlers name a settings row by userId: it is unique in the table.
SettingsCreateRefused(u) == settings[u].rows > 0

\* The create of the default row.
SettingsCreate(h) ==
    LET req == hs[h] IN
    /\ Ready
    /\ req.op = "getSettings" /\ req.pc = "create"
    /\ IF SettingsCreateRefused(req.caller)
       THEN /\ settings' = settings
            /\ Respond(h, req, 500, "Server error")
       ELSE /\ settings' = [settings EXCEPT ![req.caller] =
                                [DefaultSettings EXCEPT !.rows = settings[req.caller].rows + 1]]
            /\ RespondJson(h, req, 200, FormattedSettings(DefaultSettings))
    /\ UNCHANGED <<clock, riffs, nfts, staking, tips, paid, likes, wallets, logging>>

\* ---------------------------------- PUT /api/users/staking-settings
\* The value of a body field that is a number.
NumberValue(x) == ParseFloat(x).v

\* stakingSettingsSchema.safeParse
SettingsValid(b) ==
    /\ b.stakingEnabled.kind = "boolean"
    /\ b.defaultRoyalty.kind = "number"
    /\ NumberValue(b.defaultRoyalty) >= 0 /\ NumberValue(b.defaultRoyalty) <= 100
    /\ b.minimumStake.kind = "number" /\ NumberValue(b.minimumStake) >= 0
    /\ b.marketplaceRoyalty.kind = "boolean"

\* The columns the upsert writes.
SettingsColumns(b, rows) ==
    [rows |-> rows, stakingEnabled |-> b.stakingEnabled = JsBoolean(TRUE),
     defaultRoyalty |-> NumberValue(b.defaultRoyalty),
     minimumStake |-> NumberValue(b.minimumStake),
     marketplaceRoyalty |-> b.marketplaceRoyalty = JsBoolean(TRUE)]

\* The validation, then one upsert that names the row by userId: an update of
\* the row when there is one, a create otherwise.
SettingsPut(u, b) ==
    LET req == Request("putSettings", u, "none", 0, JsUndefined, JsUndefined)
        row == SettingsColumns(b, IF settings[u].rows = 0 THEN 1 ELSE settings[u].rows)
    IN
    /\ Ready
    /\ IF ~SettingsValid(b)
       THEN /\ settings' = settings
            /\ Answer([req EXCEPT !.seen = "invalid"], 400, "Invalid staking settings data")
       ELSE /\ settings' = [settings EXCEPT ![u] = row]
            /\ AnswerJson([req EXCEPT !.seen = "valid"], 200, FormattedSettings(row))
    /\ UNCHANGED <<clock, riffs, nfts, staking, tips, hs, paid, likes, wallets, logging>>

\* ------------------------------------------------- morgan req-body
Redacted == JsString(<<"[", "R", "E", "D", "A", "C", "T", "E", "D", "]">>)

\* if (body[key]) body[key] = "[REDACTED]", on the object at `ref`.
Redact(h, ref, key) ==
    IF JsTruthy(h[ref][key]) THEN [h EXCEPT ![ref][key] = Redacted] ELSE h

\* JSON.stringify of one value and of an object: a field that is undefined
\* is left out, a string is quoted.
JsonText(x) == IF x.kind = "string" THEN <<"\"">> \o x.text \o <<"\"">> ELSE x.text

RECURSIVE StringifyKeys(_, _)
StringifyKeys(o, ks) ==
    IF ks = <<>> THEN <<>>
    ELSE (IF o[Head(ks)].kind = "undefined" THEN <<>>
          ELSE << <<Head(ks), JsonText(o[Head(ks)])>> >>) \o StringifyKeys(o, Tail(ks))

Stringify(o) == StringifyKeys(o, BodyKeys)

CopyRefAliasesBody(i) == i

\* { ...req.body } is a new object.
CopyRef(i) == i + 2

\* The heap after the req-body token of request i has run.
ReqBodyToken(i) ==
    LET spread == [heap EXCEPT ![CopyRef(i)] = heap[i]] IN
    Redact(Redact(Redact(spread, CopyRef(i), "password"), CopyRef(i), "token"),
           CopyRef(i), "apiKey")

\* httpLogger for request i, and the line morgan writes when the response
\* has finished: health checks are skipped, the production format has no
\* :req-body and the development format has it.
LogRequest(i) ==
    /\ httpLog[i].written = "no"
    /\ IF httpLog[i].path = "/health"
       THEN /\ httpLog' = [httpLog EXCEPT ![i].written = "skipped"]
            /\ heap' = heap
       ELSE IF httpLog[i].env = "production"
       THEN /\ httpLog' = [httpLog EXCEPT ![i].written = "yes"]
            /\ heap' = heap
       ELSE /\ heap' = ReqBodyToken(i)
            /\ httpLog' = [httpLog EXCEPT ![i].written = "yes",
                                          ![i].reqBody = Stringify(heap'[CopyRef(i)])]
    /\ UNCHANGED <<clock, riffs, nfts, staking, tips, hs, last, paid, social>>

\* ------------------------------------- the staking routes behind the
\* ------------------------------------- middleware
\* The answer of the middleware to a request it turns away.
Unauthenticated(req, tok) ==
    /\ Ready
    /\ Answer([req EXCEPT !.token = tok], 401, Authenticate(tok).message)
    /\ UNCHANGED <<social, logging, clock, riffs, nfts, staking, tips, hs, paid>>

\* router.post("/stake", authMiddleware, ...).  The middleware's read of
\* table User is taken with the handler's first step: no route writes the
\* table once the user exists.
AuthStake(h, tok, r, a) ==
    IF Authenticate(tok).ok
    THEN Stake(h, Authenticate(tok).userId, r, a)
    ELSE FreeSlot(h) /\ Unauthenticated(Request("stake", "none", r, 0, a, JsUndefined), tok)

\* router.post("/unstake/:id", authMiddleware, ...)
AuthUnstake(h, tok, id) ==
    IF Authenticate(tok).ok
    THEN Unstake(h, Authenticate(tok).userId, id)
    ELSE FreeSlot(h)
         /\ Unauthenticated(Request("unstake", "none", "none", id, JsUndefined, JsUndefined), tok)

\* ------------------------------------------- the database refusing
\* A statement that the database answers with an error has written nothing.
RejectedWriteApplied(before, attempted) == attempted

RejectedWrite(before, attempted) == before

\* findUnique throws: the handler's catch answers 500.
StakeReadFails(h, u, r, a) ==
    /\ Ready /\ FreeSlot(h)
    /\ Respond(h, [Request("stake", u, r, 0, a, JsUndefined) EXCEPT !.seen = "error"],
               500, "Server error")
    /\ UNCHANGED <<social, logging, clock, riffs, nfts, staking, tips, paid>>

\* create throws.
StakeWriteFails(h) ==
    LET req == hs[h]
        amt == ParseFloat(req.amount)
    IN
    /\ Ready
    /\ req.op = "stake" /\ req.pc = "write"
    /\ staking' = RejectedWrite(staking,
                      IF amt.nan THEN staking ELSE Append(staking, NewStaking(req, amt.v)))
    /\ Respond(h, [req EXCEPT !.seen = "error"], 500, "Server error")
    /\ UNCHANGED <<social, logging, clock, riffs, nfts, tips, paid>>

UnstakeReadFails(h, u, id) ==
    /\ Ready /\ FreeSlot(h)
    /\ Respond(h, [Request("unstake", u, "none", id, JsUndefined, JsUndefined) EXCEPT
                      !.seen = "error", !.now = clock],
               500, "Server error")
    /\ UNCHANGED <<social, logging, clock, riffs, nfts, staking, tips, paid>>

\* update throws.
UnstakeWriteFails(h) ==
    LET req == hs[h] IN
    /\ Ready
    /\ req.op = "unstake" /\ req.pc = "write"
    /\ staking' = RejectedWrite(staking, [staking EXCEPT ![req.id] = Withdrawn(@)])
    /\ Respond(h, [req EXCEPT !.rec = staking[req.id], !.seen = "error"], 500, "Server error")
    /\ UNCHANGED <<social, logging, clock, riffs, nfts, tips, paid>>

\* ------------------------------------------------- PUT /api/riffs/:id
\* The guards read only what never changes while the row exists, so the
\* handler is taken at the instant of its update.
RiffUpdate(u, r, bargain) ==
    LET req == Request("riffUpdate", u, r, 0, JsUndefined, bargain)
        riff == riffs[r]
    IN
    /\ Ready
    /\ IF ~riff.exists
       THEN /\ Answer([req EXCEPT !.seen = "noRiff"], 404, "Riff not found")
            /\ riffs' = riffs
       ELSE IF riff.userId # u
       THEN /\ Answer([req EXCEPT !.seen = "riff"], 403, "Not authorized to update this riff")
            /\ riffs' = riffs
       ELSE /\ riffs' = [riffs EXCEPT ![r].isBargainBin = IsStringTrue(bargain)]
            /\ Answer([req EXCEPT !.seen = "riff"], 200, "ok")
    /\ UNCHANGED <<social, logging, clock, nfts, staking, tips, hs, paid>>

\* ---------------------------------------------- DELETE /api/riffs/:id
\* The rows of NFT, Staking and Tip that refer to the riff.
RiffReferenced(r) ==
    \/ nfts[r].exists
    \/ \E p \in 1..Len(staking) : staking[p].riffId = r
    \/ \E t \in 1..Len(tips) : tips[t].riffId = r

DeleteRiffCascade(r) ==
    [refused |-> FALSE,
     nfts |-> [nfts EXCEPT ![r] = NoNft],
     staking |-> SelectSeq(staking, LAMBDA row : row.riffId # r),
     tips |-> SelectSeq(tips, LAMBDA row : row.riffId # r)]

\* prisma.riff.delete({where: {id}}).  The relations of NFT, Staking and Tip
\* to Riff are required and name no onDelete, so the referential action is
\* Restrict: the delete is refused while a row refers to the riff, and the
\* tables are left as they are.
DeleteRiff(r) ==
    [refused |-> RiffReferenced(r), nfts |-> nfts, staking |-> staking, tips |-> tips]

\* The guards, then the delete, taken at the instant of the delete; a refused
\* delete throws and the handler's catch answers 500.
RiffDelete(u, r) ==
    LET req == Request("riffDelete", u, r, 0, JsUndefined, JsUndefined)
        riff == riffs[r]
        del == DeleteRiff(r)
    IN
    /\ Ready
    /\ IF ~riff.exists
       THEN /\ Answer([req EXCEPT !.seen = "noRiff"], 404, "Riff not found")
            /\ UNCHANGED <<social, logging, riffs, nfts, staking, tips>>
       ELSE IF riff.userId # u
       THEN /\ Answer([req EXCEPT !.seen = "riff"], 403, "Not authorized to delete this riff")
            /\ UNCHANGED <<social, logging, riffs, nfts, staking, tips>>
       ELSE IF del.refused
       THEN /\ Answer([req EXCEPT !.seen = "referenced"], 500, "Server error")
            /\ UNCHANGED <<social, logging, riffs, nfts, staking, tips>>
       ELSE /\ riffs' = [riffs EXCEPT ![r] = NoRiff]
            /\ nfts' = del.nfts
            /\ staking' = del.staking
            /\ tips' = del.tips
            /\ Answer([req EXCEPT !.seen = "riff"], 200, "Riff deleted successfully")
    /\ UNCHANGED <<social, logging, clock, hs, paid>>

\* ------------------------------------------------ POST /api/tokens/tip
\* prisma.tip.create: the one write of the handler.
NewTip(req, amount) == [riffId |-> req.riffId, userId |-> req.caller, amount |-> amount]

\* The read of the riff and the create, taken at the instant of the create.
Tip(u, r, a) ==
    LET req == Request("tip", u, r, 0, a, JsUndefined)
        amt == ParseFloat(a)
    IN
    /\ Ready
    /\ Len(tips) < MaxTips
    /\ IF ~riffs[r].exists
       THEN /\ Answer([req EXCEPT !.seen = "noRiff"], 404, "Riff not found")
            /\ tips' = tips
       ELSE IF amt.nan
       THEN /\ Answer([req EXCEPT !.seen = "riff"], 500, "Server error")
            /\ tips' = tips
       ELSE /\ tips' = Append(tips, NewTip(req, amt.v))
            /\ Answer([req EXCEPT !.seen = "riff"], 201, "created")
    /\ UNCHANGED <<social, logging, clock, riffs, nfts, staking, hs, paid>>

\* --------------------------------------- GET /api/staking/riff/:riffId
\* findMany({where: {riffId}}), as row ids.
RiffRecords(riffId) == {p \in 1..Len(staking) : staking[p].riffId = riffId}

\* A response that is a list of staking rows.
AnswerRows(req, ps) ==
    last' = [req |-> req, status |-> 200, message |-> "ok", nftOff |-> FALSE,
             stats |-> NoStats, body |-> MessageBody("ok"), rows |-> ps]

\* The route asks for no token.
ListByRiff(r) ==
    /\ Ready
    /\ AnswerRows(Request("listByRiff", "none", r, 0, JsUndefined, JsUndefined), RiffRecords(r))
    /\ UNCHANGED <<social, logging, clock, riffs, nfts, staking, tips, hs, paid>>

\* ------------------------------------------- GET /api/users/staking
\* findMany({where: {userId}}), as row ids.
UserRecords(userId) == {p \in 1..Len(staking) : staking[p].userId = userId}

ListByUser(u) ==
    /\ Ready
    /\ AnswerRows(Request("listByUser", u, "none", 0, JsUndefined, JsUndefined), UserRecords(u))
    /\ UNCHANGED <<social, logging, clock, riffs, nfts, staking, tips, hs, paid>>

\* ------------------------------------------------------ the whole system
Deliver ==
    /\ last # NoResponse
    /\ last' = NoResponse
    /\ UNCHANGED <<social, logging, clock, riffs, nfts, staking, tips, hs, paid>>

Next ==
    \/ Deliver
    \/ Tick
    \/ \E u \in Artists, r \in RiffIds : UploadRiff(u, r, JsUndefined)
    \/ \E h \in Handlers, u \in Users, r \in RiffIds, a \in AmountInputs : Stake(h, u, r, a)
    \/ \E h \in Handlers : StakeWrite(h)
    \/ \E h \in Handlers, u \in Users, id \in PositionIds : Unstake(h, u, id)
    \/ \E h \in Handlers : UnstakeWrite(h)
    \/ \E r \in RiffIds : Stats(r)
    \/ \E u \in Users, r \in RiffIds, f \in FlagInputs : Mint(u, r, FlagBody(f))
    \/ \E u \in Users, r \in RiffIds, f \in FlagInputs : NftUpdate(u, r, FlagBody(f))

Spec == Init /\ [][Next]_vars

\* The staking routes together with the other routes that write the tables
\* a staking row refers to, and the listings.
NextRoutes ==
    \/ Deliver
    \/ Tick
    \/ \E u \in Artists, r \in RiffIds, b \in BargainInputs : UploadRiff(u, r, b)
    \/ \E h \in Handlers, u \in Users, r \in RiffIds, a \in AmountInputs : Stake(h, u, r, a)
    \/ \E h \in Handlers : StakeWrite(h)
    \/ \E h \in Handlers, u \in Users, id \in PositionIds : Unstake(h, u, id)
    \/ \E h \in Handlers : UnstakeWrite(h)
    \/ \E r \in RiffIds : Stats(r)
    \/ \E u \in Users, r \in RiffIds, f \in StringFlags : Mint(u, r, FlagBody(f))
    \/ \E u \in Users, r \in RiffIds, f \in StringFlags : NftUpdate(u, r, FlagBody(f))
    \/ \E u \in Users, r \in RiffIds, b \in BargainInputs : RiffUpdate(u, r, b)
    \/ \E u \in Users, r \in RiffIds : RiffDelete(u, r)
    \/ \E u \in Tippers, r \in RiffIds, a \in TipInputs : Tip(u, r, a)
    \/ \E r \in RiffIds : ListByRiff(r)
    \/ \E u \in Users : ListByUser(u)

SpecRoutes == Init /\ [][NextRoutes]_vars

\* The routes of Spec, with a database that may answer any statement of the
\* staking routes with an error.
NextFaults ==
    \/ Deliver
    \/ Tick
    \/ \E u \in Artists, r \in RiffIds : UploadRiff(u, r, JsUndefined)
    \/ \E h \in Handlers, u \in Users, r \in RiffIds, a \in AmountInputs : Stake(h, u, r, a)
    \/ \E h \in Handlers : StakeWrite(h)
    \/ \E h \in Handlers, u \in Users, id \in PositionIds : Unstake(h, u, id)
    \/ \E h \in Handlers : UnstakeWrite(h)
    \/ \E r \in RiffIds : Stats(r)
    \/ \E u \in Users, r \in RiffIds, f \in FlagInputs : Mint(u, r, FlagBody(f))
    \/ \E u \in Users, r \in RiffIds, f \in FlagInputs : NftUpdate(u, r, FlagBody(f))
    \/ \E h \in Handlers, u \in Users, r \in RiffIds, a \in AmountInputs : StakeReadFails(h, u, r, a)
    \/ \E h \in Handlers : StakeWriteFails(h)
    \/ \E h \in Handlers, u \in Users, id \in PositionIds : UnstakeReadFails(h, u, id)
    \/ \E h \in Handlers : UnstakeWriteFails(h)

SpecFaults == Init /\ [][NextFaults]_vars

\* The amounts of the requests of SpecLive: one that parses and one that
\* does not.
LiveAmounts == {JsNumber(5), JsUndefined}

\* The staking routes over a minted riff, every database statement settling
\* (with rows or with an error) and the event loop then running the handler
\* that awaits it; a response written to the socket leaves the server.
NextLive ==
    \/ Deliver
    \/ Tick
    \/ \E u \in Artists, r \in RiffIds : UploadRiff(u, r, JsUndefined)
    \/ \E u \in Artists, r \in RiffIds, f \in StringFlags : Mint(u, r, FlagBody(f))
    \/ \E h \in Handlers, u \in Users, r \in RiffIds, a \in LiveAmounts : Stake(h, u, r, a)
    \/ \E h \in Handlers : StakeWrite(h)
    \/ \E h \in Handlers, u \in Users, id \in PositionIds : Unstake(h, u, id)
    \/ \E h \in Handlers : UnstakeWrite(h)
    \/ \E h \in Handlers, u \in Users, r \in RiffIds, a \in LiveAmounts : StakeReadFails(h, u, r, a)
    \/ \E h \in Handlers : StakeWriteFails(h)
    \/ \E h \in Handlers, u \in Users, id \in PositionIds : UnstakeReadFails(h, u, id)
    \/ \E h \in Handlers : UnstakeWriteFails(h)

SpecLive ==
    /\ Init /\ [][NextLive]_vars
    /\ WF_vars(Deliver)
    /\ \A h \in Handlers : SF_vars(StakeWrite(h) \/ StakeWriteFails(h))
    /\ \A h \in Handlers : SF_vars(UnstakeWrite(h) \/ UnstakeWriteFails(h))

\* The routes of Spec, the staking routes taking any Authorization header.
NextAuth ==
    \/ Deliver
    \/ Tick
    \/ \E u \in Artists, r \in RiffIds : UploadRiff(u, r, JsUndefined)
    \/ \E h \in Handlers, tok \in Tokens, r \in RiffIds, a \in AmountInputs : AuthStake(h, tok, r, a)
    \/ \E h \in Handlers : StakeWrite(h)
    \/ \E h \in Handlers, tok \in Tokens, id \in PositionIds : AuthUnstake(h, tok, id)
    \/ \E h \in Handlers : UnstakeWrite(h)
    \/ \E r \in RiffIds : Stats(r)
    \/ \E u \in Users, r \in RiffIds, f \in FlagInputs : Mint(u, r, FlagBody(f))
    \/ \E u \in Users, r \in RiffIds, f \in FlagInputs : NftUpdate(u, r, FlagBody(f))

SpecAuth == Init /\ [][NextAuth]_vars

\* Mint requests that overlap.
NextMint ==
    \/ Deliver
    \/ \E u \in Artists, r \in RiffIds, b \in BargainInputs : UploadRiff(u, r, b)
    \/ \E h \in Handlers, u \in Users, r \in RiffIds, b \in NftBodies : MintStart(h, u, r, b)
    \/ \E h \in Handlers : MintCreate(h)

SpecMint == Init /\ [][NextMint]_vars

\* The NFT routes with any body, and the stake route.
NextNft ==
    \/ Deliver
    \/ \E u \in Artists, r \in RiffIds : UploadRiff(u, r, JsUndefined)
    \/ \E u \in Users, r \in RiffIds, b \in NftBodies : Mint(u, r, b)
    \/ \E u \in Users, r \in RiffIds, b \in NftBodies : NftUpdate(u, r, b)
    \/ \E h \in Handlers, u \in Tippers, r \in RiffIds, a \in LiveAmounts : Stake(h, u, r, a)
    \/ \E h \in Handlers : StakeWrite(h)

SpecNft == Init /\ [][NextNft]_vars

\* Like and unlike requests that overlap.
NextLikes ==
    \/ Deliver
    \/ \E u \in Artists, r \in RiffIds : UploadRiff(u, r, JsUndefined)
    \/ \E h \in Handlers, op \in LikeRoutes, u \in Users, r \in RiffIds : LikeStart(h, op, u, r)
    \/ \E h \in Handlers : LikeCreate(h)
    \/ \E h \in Handlers, u \in Users, r \in RiffIds : UnlikeStart(h, u, r)
    \/ \E h \in Handlers : UnlikeDelete(h)

SpecLikes == Init /\ [][NextLikes]_vars

\* connect-wallet requests that overlap.
NextWallets ==
    \/ Deliver
    \/ \E h \in Handlers, u \in Users, a \in AddressInputs : ConnectWallet(h, u, a)
    \/ \E h \in Handlers : WalletCreate(h)

SpecWallets == Init /\ [][NextWallets]_vars

\* Requests for the staking settings that overlap.
NextSettings ==
    \/ Deliver
    \/ \E h \in Handlers, u \in Users : SettingsGet(h, u)
    \/ \E h \in Handlers : SettingsCreate(h)
    \/ \E u \in Users, b \in SettingsInputs : SettingsPut(u, b)

SpecSettings == Init /\ [][NextSettings]_vars

\* The logger on two requests.
NextLog ==
    \/ \E i \in Requests : LogRequest(i)

SpecLog == InitLog /\ [][NextLog]_vars

\* =================================================================
\* The claims
\* =================================================================
Positions == 1..Len(staking)

\* The response just made answers an unstake of an existing position.
UnstakeAnswered == last.req.op = "unstake" /\ last.req.seen # "noRecord"

ByOwner == last.req.caller = last.req.rec.userId

\* C1: no double withdrawal: of the unstake requests that read a position
\* before it was withdrawn, at most one is answered with success, however
\* their reads and writes interleave.
NoDoubleWithdrawal == \A p \in PositionIds : paid[p] <= 1

\* C2: withdrawal is single-use: an unstake request by the owner that finds
\* the position already withdrawn is not answered with success.
WithdrawalSingleUse ==
    (UnstakeAnswered /\ ByOwner /\ last.req.seen = "withdrawn") => last.status # 200

TimeGatingStep ==
    /\ (UnstakeAnswered /\ ByOwner /\ last.req.now < last.req.rec.unlockAt)'
          => /\ last'.status = 400
             /\ last'.message = "Staking period not over yet"
             /\ staking' = staking
    /\ \A p \in 1..Len(staking') :
          staking'[p].status = "withdrawn" => staking'[p].updatedAt >= staking'[p].unlockAt

\* C3: time-gating: an unstake by the owner whose `now` is before unlockAt is
\* answered 400 "Staking period not over yet" and changes no staking row;
\* hence every withdrawn row was last written at or after its unlockAt.
TimeGating == [][TimeGatingStep]_vars

\* C3 witness: the owner is turned away one day before the unlock date.
TimeGatingWitness ==
    /\ UnstakeAnswered /\ ByOwner
    /\ last.status = 400
    /\ last.req.now + 1 = last.req.rec.unlockAt

\* C4: an unstake by the owner whose `now` is at or after unlockAt is answered
\* with success and leaves the position withdrawn; a request that passed the
\* guards can always make its update.
UnstakeAfterUnlock ==
    /\ (UnstakeAnswered /\ ByOwner /\ last.req.now >= last.req.rec.unlockAt)
          => /\ last.status = 200
             /\ staking[last.req.id].status = "withdrawn"
    /\ \A h \in Handlers :
          (Ready /\ hs[h].op = "unstake" /\ hs[h].pc = "write") => ENABLED UnstakeWrite(h)

\* C4 witness: a successful unstake at the very instant of the unlock date.
UnstakeAfterUnlockWitness ==
    /\ UnstakeAnswered /\ ByOwner
    /\ last.status = 200
    /\ last.req.now = last.req.rec.unlockAt

\* The status as seen through the clock: a locked position whose unlock date
\* has come is unlockable.
EffectiveStatus(rec, now) ==
    IF rec.status = "locked" /\ now >= rec.unlockAt THEN "unlockable" ELSE rec.status

Rank(status) ==
    IF status = "locked" THEN 1
    ELSE IF status \in {"unlockable", "unlocked"} THEN 2
    ELSE IF status = "withdrawn" THEN 3
    ELSE 0

MonotonicStatusStep ==
    /\ Len(staking') >= Len(staking)
    /\ \A p \in 1..Len(staking) :
          /\ Rank(staking'[p].status) >= Rank(staking[p].status)
          /\ Rank(EffectiveStatus(staking'[p], clock')) >= Rank(EffectiveStatus(staking[p], clock))
    /\ \A p \in 1..Len(staking') : Rank(staking'[p].status) \in {1, 2, 3}

\* C5: monotonic status: in no step does a position's status, stored or as
\* seen through the clock (locked < unlockable < withdrawn), move backwards.
MonotonicStatus == [][MonotonicStatusStep]_vars

\* C5 witness: a withdrawn position was unstaked once more and is still
\* withdrawn.
MonotonicStatusWitness ==
    /\ UnstakeAnswered
    /\ last.req.seen = "withdrawn"
    /\ last.status = 200
    /\ staking[last.req.id].status = "withdrawn"

OwnerOnlyUnstakeStep ==
    (UnstakeAnswered /\ ~ByOwner)'
        => /\ last'.status = 403
           /\ last'.message = "Not authorized to unstake this record"
           /\ staking' = staking

\* C6: owner-only unstake: an unstake of an existing position by anyone but
\* its staker is answered 403 and changes no staking row, before and after
\* the unlock date alike.
OwnerOnlyUnstake == [][OwnerOnlyUnstakeStep]_vars

\* C6 witness: a stranger is turned away although the lock is over.
OwnerOnlyUnstakeWitness ==
    /\ UnstakeAnswered /\ ~ByOwner
    /\ last.status = 403
    /\ last.req.now >= last.req.rec.unlockAt

\* The step is the arrival of a stake request that was answered at once.
StakeTurnedAway == hs' = hs /\ last = NoResponse /\ last'.req.op = "stake"

\* The step is the arrival of a stake request that went on to its create.
StakeAdmitted(h) == hs[h].pc = "idle" /\ hs'[h].op = "stake"

\* The step is the create of handler h's stake request.
StakeCreateStep(h) == hs[h].op = "stake" /\ hs[h].pc = "write" /\ hs'[h].pc = "idle"

StakingDisabledFor(r) == riffs[r].exists /\ nfts[r].exists /\ ~nfts[r].enableStaking

StakingEnabledFor(r) == riffs[r].exists /\ nfts[r].exists /\ nfts[r].enableStaking

StakingDisabledBlocksStep ==
    /\ (StakeTurnedAway /\ StakingDisabledFor(last'.req.riffId))
          => /\ last'.status = 400
             /\ last'.message = "Staking is not enabled for this riff"
             /\ staking' = staking
    /\ \A h \in Handlers : StakeAdmitted(h) => ~StakingDisabledFor(hs'[h].riffId)
    /\ \A h \in Handlers : StakeAdmitted(h) => staking' = staking

\* C7: staking disabled blocks new positions: a stake request that reads an
\* NFT with enableStaking false is answered 400 "Staking is not enabled for
\* this riff", never goes on to its create, and the staking rows stay as
\* they were.
StakingDisabledBlocks == [][StakingDisabledBlocksStep]_vars

\* C7 witness: a stake is refused on a riff that already carries a position.
StakingDisabledBlocksWitness ==
    /\ last.req.op = "stake"
    /\ last.status = 400
    /\ last.req.seen = "disabled"
    /\ \E p \in Positions : staking[p].riffId = last.req.riffId

DisablingKeepsPositionsStep ==
    /\ nfts' # nfts =>
          /\ staking' = staking
          /\ \A r \in RiffIds : GetStats(r)' = GetStats(r)
    /\ \A r \in RiffIds :
          GetStats(r)'.records =
              Cardinality({p \in 1..Len(staking') :
                             staking'[p].riffId = r /\ staking'[p].status # "withdrawn"})
    /\ (UnstakeAnswered /\ ByOwner /\ last.nftOff /\ last.req.now >= last.req.rec.unlockAt)'
          => /\ last'.status = 200
             /\ staking'[last'.req.id].status = "withdrawn"
             /\ staking'[last'.req.id].amount = staking[last'.req.id].amount
             /\ staking'[last'.req.id].unlockAt = staking[last'.req.id].unlockAt

\* C8: disabling staking does not affect existing positions: a step that
\* changes an NFT changes no staking row and no riff's stats; the stats of a
\* riff count its non-withdrawn positions whatever the NFT's flag; and the
\* owner's unstake at or after unlockAt succeeds while staking is disabled.
DisablingKeepsPositions == [][DisablingKeepsPositionsStep]_vars

\* C8 witness: a position is unstaked with success while its riff's NFT has
\* staking disabled.
DisablingKeepsPositionsWitness ==
    /\ UnstakeAnswered /\ ByOwner
    /\ last.status = 200
    /\ last.nftOff

\* C9: amount validation: every staking row has amount > 0 and at least the
\* minimum stake, and a stake request whose amount is a number <= 0 is not
\* answered with success.
AmountValidation ==
    /\ \A p \in Positions : staking[p].amount > 0 /\ staking[p].amount >= LeastMinimumStake
    /\ (last.req.op = "stake" /\ ~ParseFloat(last.req.amount).nan
            /\ ParseFloat(last.req.amount).v <= 0)
          => last.status # 201

\* The numbers a request may send as its amount.
AmountRange == -9..9

StakeCreatesOnePositionStep ==
    /\ (last'.req.op = "stake" /\ last'.status = 201) =>
          /\ Len(staking') = Len(staking) + 1
          /\ SubSeq(staking', 1, Len(staking)) = staking
          /\ LET new == staking'[Len(staking')] IN
                /\ new.userId = last'.req.caller
                /\ new.riffId = last'.req.riffId
                /\ new.status = "locked"
                /\ new.royaltiesEarned = 0
                /\ \A n \in AmountRange : last'.req.amount = JsNumber(n) => new.amount = n
    /\ StakeTurnedAway => ~StakingEnabledFor(last'.req.riffId)
    /\ \A h \in Handlers :
          (StakeCreateStep(h) /\ hs[h].amount.kind = "number") => last'.status = 201
    /\ (last'.req.op = "stake" /\ last'.status # 201) => staking' = staking

\* C10: a successful stake creates exactly one position: the answer 201
\* comes with one new row, userId the caller, riffId the requested riff,
\* amount the number sent, status locked, royaltiesEarned 0, the rows before
\* it unchanged; a request that reads a minted riff with staking enabled goes
\* on to its create, and the create of a numeric amount succeeds.
StakeCreatesOnePosition == [][StakeCreatesOnePositionStep]_vars

\* C10 witness: a second position is created next to an existing one, for a
\* negative number sent as the amount.
StakeCreatesOnePositionWitness ==
    /\ last.req.op = "stake"
    /\ last.status = 201
    /\ Len(staking) = 2
    /\ last.req.amount = JsNumber(-5)

\* C11: lock window: every staking row has unlockAt > stakedAt.
LockWindow == \A p \in Positions : staking[p].unlockAt > staking[p].stakedAt

\* C11 witness: a row whose create reached the database a day after its
\* handler read the clock, so that stakedAt is later than that reading.
LockWindowWitness ==
    \E p \in Positions : staking[p].stakedAt > staking[p].unlockAt - LockDays

\* C12: uniform 90-day lock: every staking row has unlockAt = stakedAt + 90
\* days, whatever its riff, staker and amount.
UniformLock == \A p \in Positions : staking[p].unlockAt = staking[p].stakedAt + LockDays

\* The rows that were there before the step keep the listed columns.
KeepsPrincipal ==
    /\ Len(staking') >= Len(staking)
    /\ \A p \in 1..Len(staking) :
          /\ staking'[p].amount = staking[p].amount
          /\ staking'[p].userId = staking[p].userId
          /\ staking'[p].riffId = staking[p].riffId
          /\ staking'[p].unlockAt = staking[p].unlockAt

OnlyStatusChangesStep ==
    /\ KeepsPrincipal
    /\ \A p \in 1..Len(staking) : [staking'[p] EXCEPT !.status = staking[p].status] = staking[p]

\* C13 as stated: no operation changes a row's amount, userId, riffId or
\* unlockAt, and status is the only column an operation changes.
OnlyStatusChanges == [][OnlyStatusChangesStep]_vars

StatusAndUpdatedAtChangeStep ==
    /\ KeepsPrincipal
    /\ \A p \in 1..Len(staking) :
          [staking'[p] EXCEPT !.status = staking[p].status, !.updatedAt = staking[p].updatedAt]
              = staking[p]

\* C13 amended: no operation changes a row's amount, userId, riffId or
\* unlockAt, and the only columns an operation changes are status and the
\* updatedAt timestamp written with it.
StatusAndUpdatedAtChange == [][StatusAndUpdatedAtChangeStep]_vars

\* C13 witness: a position was withdrawn, with a tip on its riff and the
\* riff updated meanwhile.
StatusAndUpdatedAtChangeWitness ==
    /\ UnstakeAnswered /\ last.status = 200
    /\ staking[last.req.id].updatedAt > staking[last.req.id].stakedAt
    /\ \E t \in 1..Len(tips) : tips[t].riffId = staking[last.req.id].riffId
    /\ riffs[staking[last.req.id].riffId].isBargainBin

\* The sum of amount over the rows ps, and the same after the step.
RECURSIVE SumAmountAfter(_)
SumAmountAfter(ps) ==
    IF ps = {} THEN 0
    ELSE LET p == CHOOSE q \in ps : TRUE IN staking'[p].amount + SumAmountAfter(ps \ {p})

StatsAggregateStep ==
    /\ \A r \in RiffIds :
          LET open == {p \in 1..Len(staking') :
                         staking'[p].riffId = r /\ staking'[p].status # "withdrawn"}
              stats == GetStats(r)'
          IN  /\ stats.totalStaked = SumAmountAfter(open)
              /\ stats.stakersCount = Cardinality({staking'[p].userId : p \in open})
              /\ stats.records = Cardinality(open)
              /\ stats.stakersCount <= stats.records
              /\ last'.req.op = "stats" /\ last'.req.riffId = r => last'.stats = stats
    /\ (last'.req.op = "unstake" /\ last'.status = 200) =>
          \A r \in RiffIds, p \in 1..Len(staking) :
              (p = last'.req.id /\ staking[p].riffId = r) =>
                  /\ GetStats(r)'.totalStaked = GetStats(r).totalStaked - staking[p].amount
                  /\ GetStats(r)'.records = GetStats(r).records - 1

\* C14: the stats of a riff are the sum of amount, the number of distinct
\* stakers and the number of its positions that are not withdrawn, so that
\* stakersCount <= records; and a successful unstake of a position lowers
\* totalStaked by the position's amount and records by 1.
StatsAggregate == [][StatsAggregateStep]_vars

PositionsKeptStep ==
    /\ Len(staking') >= Len(staking)
    /\ \A p \in 1..Len(staking) :
          /\ staking'[p].userId = staking[p].userId
          /\ staking'[p].riffId = staking[p].riffId
          /\ staking'[p].stakedAt = staking[p].stakedAt
    /\ last'.req.op = "listByRiff" =>
          \A p \in 1..Len(staking') : staking'[p].riffId = last'.req.riffId => p \in last'.rows
    /\ last'.req.op = "listByUser" =>
          \A p \in 1..Len(staking') : staking'[p].userId = last'.req.caller => p \in last'.rows

\* C15: positions are never destroyed: no step removes a staking row, and the
\* listings by riff and by user return every row of the riff or user,
\* withdrawn ones included.
PositionsKept == [][PositionsKeptStep]_vars

\* C15 witness: the listing of a riff returns a withdrawn position.
PositionsKeptWitness ==
    /\ last.req.op = "listByRiff"
    /\ \E p \in last.rows : staking[p].status = "withdrawn"

RECURSIVE SumSeq(_)
SumSeq(q) == IF q = <<>> THEN 0 ELSE Head(q) + SumSeq(Tail(q))

\* What a withdrawal releases: the principal and the royalties.
Released(rec) == IF rec.status = "withdrawn" THEN rec.amount + rec.royaltiesEarned ELSE 0

\* C16: conservation: for every position the signed ledger movements
\* recorded for it sum to principal + accrued royalties - the amount released
\* if the position is withdrawn.
Conservation ==
    \A p \in Positions :
        SumSeq(LedgerMovements(p))
            = staking[p].amount + staking[p].royaltiesEarned - Released(staking[p])

\* The royalties credited by the step to the rows ps.
RECURSIVE CreditedSum(_)
CreditedSum(ps) ==
    IF ps = {} THEN 0
    ELSE LET p == CHOOSE q \in ps : TRUE
         IN  (staking'[p].royaltiesEarned - staking[p].royaltiesEarned) + CreditedSum(ps \ {p})

RoyaltyAccrualStep ==
    Len(tips') > Len(tips) =>
        LET tip == tips'[Len(tips')]
            eligible == StatsRecords(tip.riffId)
            stakerPool == (tip.amount * RoyaltyShareBps) \div 10000
        IN  /\ \A p \in Positions \ eligible :
                  staking'[p].royaltiesEarned = staking[p].royaltiesEarned
            /\ eligible # {} => CreditedSum(eligible) = stakerPool

\* C17: royalty accrual: a tip on a riff credits totalAmount *
\* royaltyShareBps / 10000 to the riff's positions that are not withdrawn, the
\* credits summing to that pool exactly; withdrawn positions are credited
\* nothing.
RoyaltyAccrual == [][RoyaltyAccrualStep]_vars

\* C20: the answer to an unstake refused because now < unlockAt carries the
\* remaining wait unlockAt - now, a positive duration.
RemainingWaitInPayload ==
    (UnstakeAnswered /\ last.status = 400) =>
        /\ "remaining" \in DOMAIN last.body
        /\ last.body.remaining = last.req.rec.unlockAt - last.req.now
        /\ last.body.remaining > 0

\* The request answered by the step is a stake or an unstake that failed.
FailedAfter == last'.req.op \in {"stake", "unstake"} /\ last'.status \notin {200, 201}

NoPartialStateStep ==
    /\ FailedAfter => staking' = staking
    /\ \A h \in Handlers : (hs[h].pc = "idle" /\ hs'[h].pc = "write") => staking' = staking

ValidToken(tok) == tok.kind = "signed" /\ tok.userId \in Users

AuthGateStep ==
    /\ (last'.req.op \in {"stake", "unstake"} /\ ~ValidToken(last'.req.token)) =>
          /\ last'.status = 401
          /\ staking' = staking
          /\ hs' = hs
    /\ \A h \in Handlers :
          hs'[h].op \in {"stake", "unstake"} =>
              /\ ValidToken(hs'[h].token)
              /\ hs'[h].caller = hs'[h].token.userId
    /\ \A p \in 1..Len(staking') : staking'[p].userId \in Users

\* C19: authentication gate: a stake or unstake request with no token, an
\* invalid token or a token of a user that does not exist is answered 401,
\* reaches no handler and changes no staking row; the caller of every
\* request a handler runs is an existing user.
AuthGate == [][AuthGateStep]_vars

\* C19 witness: a token signed for an unknown user is turned away from an
\* unstake of an existing position whose lock is over.
AuthGateWitness ==
    /\ last.req.op = "unstake"
    /\ last.status = 401
    /\ last.req.token.kind = "signed"
    /\ last.req.id \in Positions
    /\ clock >= staking[last.req.id].unlockAt

\* C21: unstake check order: a missing position is answered 404 whoever
\* asks; an existing position asked for by another user is answered 403,
\* before or after its unlock date, with a body that carries no unlockAt;
\* only the owner is answered 400 with the unlock date.
UnstakeCheckOrder ==
    last.req.op = "unstake" =>
        /\ last.req.seen = "noRecord" =>
              last.status = 404 /\ last.body = MessageBody("Staking record not found")
        /\ (UnstakeAnswered /\ ~ByOwner) =>
              /\ last.status = 403
              /\ last.body = MessageBody("Not authorized to unstake this record")
        /\ (UnstakeAnswered /\ ByOwner /\ last.req.now < last.req.rec.unlockAt) =>
              last.status = 400 /\ last.body.unlockAt = last.req.rec.unlockAt
        /\ "unlockAt" \in DOMAIN last.body => ByOwner

\* C21 witness: a stranger asks before the unlock date, so that the second
\* and the third guard both fail, and is answered by the second.
UnstakeCheckOrderWitness ==
    /\ UnstakeAnswered /\ ~ByOwner
    /\ last.req.now < last.req.rec.unlockAt
    /\ last.status = 403

StakePreconditionsStep ==
    /\ \A h \in Handlers :
          StakeAdmitted(h) =>
              /\ riffs[hs'[h].riffId].exists
              /\ nfts[hs'[h].riffId].exists
              /\ nfts[hs'[h].riffId].enableStaking
    /\ StakeTurnedAway =>
          LET r == last'.req.riffId IN
              /\ ~riffs[r].exists => last'.status = 404 /\ last'.message = "Riff not found"
              /\ (riffs[r].exists /\ ~nfts[r].exists) =>
                    last'.status = 400 /\ last'.message = "Riff is not minted as an NFT"
              /\ StakingDisabledFor(r) =>
                    last'.status = 400 /\ last'.message = "Staking is not enabled for this riff"
    /\ Len(staking') > Len(staking) =>
          /\ \E h \in Handlers : StakeCreateStep(h)
          /\ nfts[staking'[Len(staking')].riffId].exists
    /\ \A p \in 1..Len(staking') :
          riffs'[staking'[p].riffId].exists /\ nfts'[staking'[p].riffId].exists

\* C22: stake preconditions: a stake request goes on to its create only if
\* its read found the riff, the riff's NFT and enableStaking true; the
\* refusals come in the order 404 riff not found, 400 not minted, 400 staking
\* disabled; a row is created only by such a request, and the riff of every
\* row has an NFT.
StakePreconditions == [][StakePreconditionsStep]_vars

\* C22 witness: a row was created although staking was disabled between the
\* request's read and its create.
StakePreconditionsWitness ==
    /\ last.req.op = "stake"
    /\ last.status = 201
    /\ ~nfts[last.req.riffId].enableStaking

\* The step answers an unstake with success.
UnstakeSucceeds == last'.req.op = "unstake" /\ last'.status = 200

\* The rows after a successful unstake of row id at instant t.
UnstakeRows(rows, id, t) ==
    [rows EXCEPT ![id] = [@ EXCEPT !.status = "withdrawn", !.updatedAt = t]]

\* The rows without their updatedAt timestamps.
WithoutUpdatedAt(rows) == [i \in DOMAIN rows |-> [rows[i] EXCEPT !.updatedAt = 0]]

UnstakeTouchesStatusOnlyStep ==
    /\ UnstakeSucceeds =>
          \A p \in 1..Len(staking) :
              IF p = last'.req.id
              THEN [staking'[p] EXCEPT !.status = staking[p].status] = staking[p]
              ELSE staking'[p] = staking[p]
    /\ \A p, q \in 1..Len(staking'), t \in TimePoints, u \in TimePoints :
          (p # q /\ t <= u) =>
              UnstakeRows(UnstakeRows(staking', p, t), q, u)
                  = UnstakeRows(UnstakeRows(staking', q, t), p, u)

\* C23 as stated: a successful unstake of p changes p.status and nothing
\* else, in p or in any other row, so that unstaking p then q leaves the
\* same rows as unstaking q then p.
UnstakeTouchesStatusOnly == [][UnstakeTouchesStatusOnlyStep]_vars

UnstakeTouchesOneRowStep ==
    /\ UnstakeSucceeds =>
          /\ staking' = UnstakeRows(staking, last'.req.id, clock)
          /\ \A p \in 1..Len(staking) :
                IF p = last'.req.id
                THEN [staking'[p] EXCEPT !.status = staking[p].status,
                                         !.updatedAt = staking[p].updatedAt] = staking[p]
                ELSE staking'[p] = staking[p]
    /\ \A p, q \in 1..Len(staking'), t \in TimePoints, u \in TimePoints :
          (p # q /\ t <= u) =>
              /\ WithoutUpdatedAt(UnstakeRows(UnstakeRows(staking', p, t), q, u))
                    = WithoutUpdatedAt(UnstakeRows(UnstakeRows(staking', q, t), p, u))
              /\ t = u => UnstakeRows(UnstakeRows(staking', p, t), q, u)
                             = UnstakeRows(UnstakeRows(staking', q, t), p, u)

\* C23 amended: a successful unstake of p changes p.status and p.updatedAt
\* and nothing else, in p or in any other row, so that unstaking p then q
\* leaves the same rows as unstaking q then p, up to the updatedAt of p and
\* q when the two are made at different instants.
UnstakeTouchesOneRow == [][UnstakeTouchesOneRowStep]_vars

\* C23 witness: one of two positions was unstaked and the other is still
\* locked.
UnstakeTouchesOneRowWitness ==
    /\ UnstakeAnswered /\ last.status = 200
    /\ Len(staking) = 2
    /\ \E p \in Positions : p # last.req.id /\ staking[p].status = "locked"

\* A response to a stake or unstake request is sent in this step.
StakingResponse == last' # last /\ last'.req.op \in {"stake", "unstake"}

OneResponseStep ==
    /\ StakingResponse =>
          /\ last = NoResponse
          /\ IF last'.req.pc = "write"
             THEN \E h \in Handlers :
                      /\ hs[h].pc = "write" /\ hs[h].op = last'.req.op
                      /\ hs[h].caller = last'.req.caller
                      /\ hs' = [hs EXCEPT ![h] = Idle]
             ELSE hs' = hs
    /\ \A h \in Handlers :
          /\ (hs[h].pc = "idle" /\ hs'[h].pc # "idle") => last' = last
          /\ (hs[h].pc # "idle" /\ hs'[h] # hs[h]) => (hs'[h] = Idle /\ StakingResponse)

\* C24: a stake or unstake request is answered in the step that ends its
\* handler and in no other (at arrival when a guard or the first read
\* turns it away, at the write otherwise, whether the write succeeds or
\* throws), and every handler that awaits its write ends.
OneResponse ==
    /\ [][OneResponseStep]_vars
    /\ \A h \in Handlers : (hs[h].pc = "write") ~> (hs[h].pc = "idle")

\* C24 witness: a handler ended with the answer to a write that threw while
\* another handler still awaits its own write.
OneResponseWitness ==
    /\ last.req.op \in {"stake", "unstake"} /\ last.req.pc = "write" /\ last.status = 500
    /\ \E h \in Handlers : hs[h].pc = "write"

\* A request of the route `op` is answered in this step, at its arrival.
AnsweredAtArrival(op) == last' # last /\ last'.req.op = op /\ last'.req.pc = "idle"

MintOnceStep ==
    /\ \A r \in RiffIds : nfts'[r].rows <= 1 /\ (nfts'[r].exists <=> nfts'[r].rows = 1)
    /\ \A r \in RiffIds :
          (/\ AnsweredAtArrival("mint") /\ last'.req.riffId = r
           /\ riffs[r].exists /\ riffs[r].userId = last'.req.caller
           /\ nfts[r].rows > 0)
          => /\ last'.status = 400
             /\ last'.body = MessageBody("Riff is already minted as an NFT")
             /\ nfts' = nfts /\ hs' = hs

\* C25: a riff never has more than one NFT row, whichever way the mint
\* requests for it overlap, and a mint by the owner that arrives when the
\* riff has its NFT is answered 400 and creates nothing.
MintOnce == [][MintOnceStep]_vars

\* C25 witness: of two mints of one riff that both passed the check, the
\* second to reach its create was refused and the riff has one NFT.
MintOnceWitness ==
    /\ last.req.op = "mint" /\ last.req.pc = "create" /\ last.req.seen = "noNft"
    /\ ~NftCreateInvalid(last.req)
    /\ last.status = 500
    /\ nfts[last.req.riffId].rows = 1

TrueString == JsString(<<"t", "r", "u", "e">>)

NftUpdateOverwritesStep ==
    /\ \A r \in RiffIds :
          (last' # last /\ last'.req.op = "nftUpdate" /\ last'.status = 200
           /\ last'.req.riffId = r)
          => LET b == last'.req.nft IN
             /\ nfts[r].ownerId = last'.req.caller
             /\ nfts'[r].enableStaking = (b.enableStaking = TrueString)
             /\ nfts'[r].unlockSourceFiles = (b.unlockSourceFiles = TrueString)
             /\ b.price = JsUndefined => nfts'[r].price = nfts[r].price
             /\ b.customRoyaltyShare = JsUndefined =>
                    nfts'[r].customRoyaltyShare = nfts[r].customRoyaltyShare
             /\ nfts'[r].ownerId = nfts[r].ownerId /\ nfts'[r].rows = nfts[r].rows
             /\ staking' = staking
    /\ \A r \in RiffIds :
          (AnsweredAtArrival("stake") /\ last'.req.riffId = r /\ StakingDisabledFor(r))
          => /\ last'.status = 400
             /\ last'.body = MessageBody("Staking is not enabled for this riff")
             /\ hs' = hs /\ staking' = staking
    /\ \A h \in Handlers : StakeAdmitted(h) => nfts[hs'[h].riffId].enableStaking

\* C26: a successful update by the owner leaves enableStaking and the
\* unlock flag true exactly when the body carries the string "true" for it,
\* leaves price and customRoyaltyShare as they were when the body omits
\* them, and a stake request that arrives while the flag is off is refused.
NftUpdateOverwrites == [][NftUpdateOverwritesStep]_vars

\* C26 witness: an update that names a new price and no flag has turned
\* staking off on an NFT that has a position.
NftUpdateOverwritesWitness ==
    /\ last.req.op = "nftUpdate" /\ last.status = 200
    /\ last.req.nft.enableStaking = JsUndefined /\ last.req.nft.price = JsNumber(20)
    /\ nfts[last.req.riffId].price = 20
    /\ ~nfts[last.req.riffId].enableStaking
    /\ \E p \in Positions : staking[p].riffId = last.req.riffId /\ staking[p].status = "locked"

\* A like request is answered in this step.
LikeAnswered == last' # last /\ last'.req.op \in {"like", "userLike"}

AtMostOneLikeStep ==
    /\ \A u \in Users, r \in RiffIds : likes'[u][r] <= 1
    /\ \A u \in Users, r \in RiffIds :
          (last'.req.caller = u /\ last'.req.riffId = r) =>
             /\ (LikeAnswered /\ last'.req.pc = "idle" /\ riffs[r].exists /\ likes[u][r] > 0)
                   => (last'.status = 400 /\ likes' = likes /\ hs' = hs)
             /\ (LikeAnswered /\ last'.status \in {200, 201})
                   => (likes[u][r] = 0 /\ likes' = [likes EXCEPT ![u][r] = 1])
             /\ (last' # last /\ last'.req.op = "unlike" /\ last'.status = 200)
                   => (likes[u][r] = 1 /\ likes' = [likes EXCEPT ![u][r] = 0])
    /\ likes' # likes => (last' # last /\ last'.status \in {200, 201})

ConnectAnswered == last' # last /\ last'.req.op = "connectWallet"

OneUserPerAddressStep ==
    /\ \A a \in Addresses : Len(wallets'[a]) <= 1
    /\ \A a \in Addresses :
          (ConnectAnswered /\ last'.req.address = a /\ wallets[a] # <<>>)
          => (last'.status = 400 /\ wallets' = wallets)

\* C28: an address never has more than one Wallet row, and a connect-wallet
\* request that is answered when the address has its row, whether the row
\* was there when the request arrived or was created by a request that
\* overlaps it, is answered 400 and changes nothing.
OneUserPerAddress == [][OneUserPerAddressStep]_vars

SettingsGetOnceStep ==
    /\ \A u \in Users : settings'[u].rows <= 1
    /\ \A u \in Users :
          (last' # last /\ last'.req.op = "getSettings" /\ last'.req.caller = u) =>
             /\ settings[u].rows > 0 => settings' = settings
             /\ settings' # settings =>
                   /\ settings' = [settings EXCEPT ![u] =
                          [rows |-> 1, stakingEnabled |-> TRUE, defaultRoyalty |-> 10,
                           minimumStake |-> 500, marketplaceRoyalty |-> TRUE]]
                   /\ last'.status = 200
             /\ last'.status = 200 =>
                   /\ settings'[u].rows = 1
                   /\ last'.body.stakingEnabled = settings'[u].stakingEnabled
                   /\ last'.body.defaultRoyalty = settings'[u].defaultRoyalty
                   /\ last'.body.minimumStake = settings'[u].minimumStake

SecretKeys == {"password", "token", "apiKey"}

\* A field that is present and is not the empty string nor the number 0.
NonEmptyField(x) ==
    \/ x.kind = "string" /\ Len(x.text) > 0
    \/ x.kind = "number" /\ x # JsNumber(0)

\* Two bodies that differ at most in the values of non-empty secret fields.
DifferOnlyInSecrets(a, b) ==
    /\ a.email = b.email
    /\ \A k \in SecretKeys : a[k] = b[k] \/ (NonEmptyField(a[k]) /\ NonEmptyField(b[k]))

BothLogged == \A i \in Requests : httpLog[i].written # "no"

RedactionStep ==
    /\ \A i \in Requests : heap'[i] = heap[i]
    /\ (BothLogged' /\ httpLog'[1].path = httpLog'[2].path
           /\ DifferOnlyInSecrets(heap'[1], heap'[2]))
          => httpLog'[1] = httpLog'[2]
    /\ \A i \in Requests, k \in SecretKeys :
          (httpLog'[i].written = "yes" /\ httpLog'[i].env = "development"
             /\ NonEmptyField(heap'[i][k]))
          => \E n \in 1..Len(httpLog'[i].reqBody) :
                 httpLog'[i].reqBody[n] =
                     <<k, <<"\"", "[", "R", "E", "D", "A", "C", "T", "E", "D", "]", "\"">> >>

\* C30: two requests on one path whose bodies differ only in the values of
\* non-empty password, token or apiKey fields get the same log line, every
\* such value being written as "[REDACTED]", and writing the line leaves
\* the body object of the request as it was.
Redaction == [][RedactionStep]_vars

\* C30 witness: two requests with different passwords and tokens were
\* logged in development with the same text.
RedactionWitness ==
    /\ BothLogged
    /\ httpLog[1].written = "yes" /\ httpLog[1].env = "development"
    /\ heap[1].password # heap[2].password /\ heap[1].token # heap[2].token
    /\ DifferOnlyInSecrets(heap[1], heap[2])
    /\ httpLog[1].reqBody = httpLog[2].reqBody

====
